---- MODULE Spec2Model ----
(***************************************************************************)
(* Model of backend/recommender.py (content-based recommender and its      *)
(* accuracy evaluator) and of the request handlers of backend/app.py.      *)
(*                                                                         *)
(* Data representation.                                                    *)
(*  - A catalog (items_df) is a sequence of rows [item_id, term]; row r of *)
(*    the sequence has positional index r-1, which is also its index label *)
(*    (read_csv gives a RangeIndex).  The metadata soup of an item is      *)
(*    restricted to a single term, so its L2-normalised TF-IDF row is the  *)
(*    unit vector of that term.                                            *)
(*  - A ratings frame (ratings_df) is a sequence of rows                   *)
(*    [user_id, item_id, rating]; the index label of a row is its          *)
(*    position.                                                            *)
(*  - A Python dict is a record: its keys are the record's DOMAIN.         *)
(*  - A call returns [raised, value]: raised names the exception that left *)
(*    the function ("none" when it returned), value is the returned value. *)
(*  - precision, recall and f1_score are kept in units of 1/10000, the     *)
(*    resolution of round(x, 4); a mean is the exact fraction [num, den].  *)
(***************************************************************************)
EXTENDS Integers, Sequences, FiniteSets, TLC

VARIABLES
  items_df,          \* the catalog the caller passes (app.py: module global)
  ratings_df,        \* the content of ratings.csv, re-read by every request
  tfidf_matrix,      \* recommender.py global: [is_none, rows]
  item_indices_map,  \* recommender.py global: item_id -> row index (0-based)
  last,              \* the last completed call: its arguments and what it did
  memo,              \* an earlier evaluate_accuracy call, kept for comparison
  req                \* per worker thread: the /recomendar request it serves

vars == <<items_df, ratings_df, tfidf_matrix, item_indices_map, last, memo, req>>

----------------------------------------------------------------------------
(* Bounds and program constants *)

MaxRatings == 4
MaxTopN == 2
MaxDetRatings == 2
MaxConcRatings == 2

DefaultTopN == 5
EvalTopN == 30
LikedThreshold == 3
Threshold == 3
MinPositives == 2
Decimals == 4

UserIds == {1, 2}
Threads == {1, 2}
Terms == {"a", "b"}

Item(i, t) == [item_id |-> i, term |-> t]
Rating(u, i, r) == [user_id |-> u, item_id |-> i, rating |-> r]

\* The catalogs a caller passes: none, one item, three items in item_id
\* order, and the same three items in another row order.
Catalogs ==
  { <<>>,
    <<Item(1, "a")>>,
    <<Item(1, "a"), Item(2, "a"), Item(3, "b")>>,
    <<Item(3, "b"), Item(2, "a"), Item(1, "a")>> }

\* The rows that may be appended to ratings.csv.
RatingRows ==
  { Rating(1, 1, 5), Rating(1, 2, 4), Rating(1, 1, 2),
    Rating(2, 3, 3), Rating(2, 1, 5) }

TopNs == 0 .. MaxTopN

----------------------------------------------------------------------------
(* Generic helpers *)

Range(s) == {s[k] : k \in 1 .. Len(s)}

RECURSIVE SumSeq(_)
SumSeq(s) == IF s = <<>> THEN 0 ELSE Head(s) + SumSeq(Tail(s))

Pow10(n) == IF n = 4 THEN 10000 ELSE IF n = 3 THEN 1000 ELSE IF n = 2 THEN 100
            ELSE IF n = 1 THEN 10 ELSE 1

\* Python's round(): the nearest integer to num/den, a tie going to the even one.
RoundHalfEven(num, den) ==
  LET q == num \div den
      r == num % den
  IN  IF 2 * r < den THEN q
      ELSE IF 2 * r > den THEN q + 1
      ELSE IF q % 2 = 0 THEN q ELSE q + 1

\* round(num/den, 4), in units of 1/10000.
Round4(num, den) == RoundHalfEven(num * Pow10(Decimals), den)

----------------------------------------------------------------------------
(* prepare_data_and_vectorize *)

\* Module state at import: tfidf_matrix = None, item_indices_map = {}.
NoneMatrix == [is_none |-> TRUE, rows |-> <<>>]
EmptyMap == <<>>
Globals(m, ix) == [tfidf_matrix |-> m, item_indices_map |-> ix]

\* TfidfVectorizer().fit_transform: one L2-normalised row per catalog row.
Vectorize(items) ==
  [is_none |-> FALSE,
   rows |-> [r \in 1 .. Len(items) |->
               [t \in Terms |-> IF items[r].term = t THEN 1 ELSE 0]]]

\* pd.Series(items_df.index, index=items_df['item_id']).to_dict(): for a
\* repeated item_id the last row wins.
IndexMap(items) ==
  [id \in {items[r].item_id : r \in 1 .. Len(items)} |->
     (CHOOSE r \in 1 .. Len(items) :
        /\ items[r].item_id = id
        /\ \A r2 \in (r + 1) .. Len(items) : items[r2].item_id # id) - 1]

\* fit_transform raises ValueError (empty vocabulary) on a catalog without
\* rows, before either global is assigned.
prepare_data_and_vectorize(items, g) ==
  IF Len(items) = 0
    THEN [raised |-> "ValueError", g |-> g]
    ELSE [raised |-> "none", g |-> Globals(Vectorize(items), IndexMap(items))]

\* The guard of lines 79, 122 and 189.
NeedsPrepare(items, g) == g.tfidf_matrix.is_none

\* "if tfidf_matrix is None: prepare_data_and_vectorize(items_df)"
EnsureIndex(items, g) ==
  IF NeedsPrepare(items, g)
    THEN [rebuilt |-> TRUE] @@ prepare_data_and_vectorize(items, g)
    ELSE [rebuilt |-> FALSE, raised |-> "none", g |-> g]

----------------------------------------------------------------------------
(* build_user_profile *)

IsLike(user_id, row) == row.user_id = user_id /\ row.rating >= LikedThreshold

RECURSIVE LikedIndices(_, _)
LikedIndices(user_likes, ix) ==
  IF user_likes = <<>> THEN <<>>
  ELSE LET item_id == Head(user_likes).item_id
           rest == LikedIndices(Tail(user_likes), ix)
       IN  IF item_id \in DOMAIN ix THEN <<ix[item_id]>> \o rest ELSE rest

NoProfile == [is_none |-> TRUE, sum |-> [t \in Terms |-> 0], n |-> 0]

\* np.mean(tfidf_matrix[liked_indices], axis=0) is sum / n.
MeanVector(matrix, liked_indices) ==
  [is_none |-> FALSE,
   sum |-> [t \in Terms |->
              SumSeq([k \in 1 .. Len(liked_indices) |->
                        matrix.rows[liked_indices[k] + 1][t]])],
   n |-> Len(liked_indices)]

build_user_profile(user_id, ratings, matrix, ix) ==
  LET user_likes == SelectSeq(ratings, LAMBDA row : IsLike(user_id, row))
      liked_indices == LikedIndices(user_likes, ix)
  IN  IF user_likes = <<>> THEN NoProfile
      ELSE IF liked_indices = <<>> THEN NoProfile
      ELSE MeanVector(matrix, liked_indices)

----------------------------------------------------------------------------
(* get_recommendations *)

RECURSIVE DotOver(_, _, _)
DotOver(S, u, v) ==
  IF S = {} THEN 0
  ELSE LET t == CHOOSE x \in S : TRUE
       IN  u[t] * v[t] + DotOver(S \ {t}, u, v)

\* cosine_similarity(user_profile, row) * ||profile.sum||: every matrix row is
\* a unit vector and the norm of the profile is common to all rows of a call,
\* so scores of one call compare as these numerators do.
CosineScore(profile, row) == DotOver(Terms, profile.sum, row)

\* list(enumerate(cosine_sim[0]))
SimScores(profile, matrix) ==
  [r \in 1 .. Len(matrix.rows) |->
     [idx |-> r - 1, score |-> CosineScore(profile, matrix.rows[r])]]

\* Where sorted(key=score, reverse=True) puts x among the elements before it:
\* after every element with a score at least as high (the sort is stable).
RECURSIVE InsertByScore(_, _)
InsertByScore(x, s) ==
  IF s = <<>> THEN <<x>>
  ELSE IF Head(s).score >= x.score
         THEN <<Head(s)>> \o InsertByScore(x, Tail(s))
         ELSE <<x>> \o s

RECURSIVE SortedByScore(_)
SortedByScore(s) ==
  IF s = <<>> THEN <<>>
  ELSE InsertByScore(s[Len(s)], SortedByScore(SubSeq(s, 1, Len(s) - 1)))

WatchedItems(user_id, ratings) ==
  {ratings[k].item_id : k \in {j \in 1 .. Len(ratings) : ratings[j].user_id = user_id}}

Recommendation(item, score) == [item_id |-> item.item_id, score |-> score]

\* The test that ends the loop of lines 98-111.
Enough(recommendations, top_n) == Len(recommendations) >= top_n

\* The loop of lines 98-111 from position k of sim_scores on.
RECURSIVE RecommendLoop(_, _, _, _, _, _)
RecommendLoop(sim_scores, k, items, watched_items, top_n, recommendations) ==
  IF k > Len(sim_scores)
    THEN [raised |-> "none", value |-> recommendations]
  ELSE IF sim_scores[k].idx >= Len(items)
    THEN [raised |-> "IndexError", value |-> <<>>]
  ELSE LET item == items[sim_scores[k].idx + 1]
           recs == IF item.item_id \notin watched_items
                     THEN Append(recommendations,
                                 Recommendation(item, sim_scores[k].score))
                     ELSE recommendations
       IN  IF Enough(recs, top_n)
             THEN [raised |-> "none", value |-> recs]
             ELSE RecommendLoop(sim_scores, k + 1, items, watched_items, top_n, recs)

\* Lines 82-113: what get_recommendations does once the index is there.
Recommend(user_id, items, ratings, top_n, g) ==
  LET user_profile == build_user_profile(user_id, ratings, g.tfidf_matrix,
                                         g.item_indices_map)
      sim_scores == SortedByScore(SimScores(user_profile, g.tfidf_matrix))
  IN  IF user_profile.is_none
        THEN [raised |-> "none", value |-> <<>>]
        ELSE RecommendLoop(sim_scores, 1, items, WatchedItems(user_id, ratings),
                           top_n, <<>>)

get_recommendations(user_id, items, ratings, top_n, g) ==
  LET e == EnsureIndex(items, g)
  IN  IF e.raised # "none"
        THEN [raised |-> e.raised, value |-> <<>>, g |-> e.g, rebuilt |-> e.rebuilt]
        ELSE Recommend(user_id, items, ratings, top_n, e.g)
               @@ [g |-> e.g, rebuilt |-> e.rebuilt]

----------------------------------------------------------------------------
(* evaluate_accuracy *)

\* ratings_df['user_id'] == user_id: the positions (1-based) of the user's
\* rows from position k on, ascending.
RECURSIVE UserPositions(_, _, _)
UserPositions(ratings, k, user_id) ==
  IF k > Len(ratings) THEN <<>>
  ELSE (IF ratings[k].user_id = user_id THEN <<k>> ELSE <<>>)
         \o UserPositions(ratings, k + 1, user_id)

RowsAt(ratings, positions) ==
  [k \in 1 .. Len(positions) |-> ratings[positions[k]]]

\* np.random.RandomState(42).permutation(n): the shuffle DataFrame.sample
\* draws its rows from (0-based positions), for the frame lengths in reach.
Permutation42(n) ==
  CASE n = 0 -> <<>>
    [] n = 1 -> <<0>>
    [] n = 2 -> <<1, 0>>
    [] n = 3 -> <<0, 1, 2>>
    [] n = 4 -> <<1, 3, 0, 2>>
    [] n = 5 -> <<1, 4, 2, 0, 3>>
    [] n = 6 -> <<0, 1, 5, 2, 4, 3>>

\* DataFrame.sample(frac=0.5): round(0.5 * n) rows.
SampleSize(n) == RoundHalfEven(n, 2)

\* The 0-based positions sample(frac=0.5, random_state=42) takes from a
\* frame of n rows, in the order it takes them.
SamplePositions(n) == SubSeq(Permutation42(n), 1, SampleSize(n))

IsPositive(row) == row.rating >= Threshold

\* Line 131 counting every rating of the user, liked or not.
TooFewRatings(user_ratings) == Len(user_ratings) < MinPositives

\* Line 131.
TooFewPositives(user_ratings) ==
  Len(SelectSeq(user_ratings, IsPositive)) < MinPositives

\* ratings_df['user_id'] != user_id: the positions of the other users' rows.
RECURSIVE OtherPositions(_, _, _)
OtherPositions(ratings, k, user_id) ==
  IF k > Len(ratings) THEN <<>>
  ELSE (IF ratings[k].user_id # user_id THEN <<k>> ELSE <<>>)
         \o OtherPositions(ratings, k + 1, user_id)

\* Line 139 without the split: the whole of ratings_df.
WholeView(user_id, ratings, train_pos) == [k \in 1 .. Len(ratings) |-> k]

\* Line 139: pd.concat([ratings_df[user_id != u], train_items]), as the
\* positions in ratings_df of the rows of the result.
TrainView(user_id, ratings, train_pos) ==
  OtherPositions(ratings, 1, user_id) \o train_pos

\* The index labels of the rows at these positions.
Labels(positions) == [k \in 1 .. Len(positions) |-> positions[k] - 1]

\* Line 147.
RelevantItems(test_items) ==
  {test_items[k].item_id : k \in {j \in 1 .. Len(test_items) : IsPositive(test_items[j])}}

\* Line 164 with the requested size as the denominator.
PrecisionAtTopN(hits, recommended_ids) == [num |-> hits, den |-> EvalTopN]

\* Line 164, before rounding: the fraction hits / len(recommended_ids).
PrecisionOf(hits, recommended_ids) ==
  IF Cardinality(recommended_ids) > 0
    THEN [num |-> hits, den |-> Cardinality(recommended_ids)]
    ELSE [num |-> 0, den |-> 1]

\* Line 167, before rounding.
RecallOf(hits, relevant_items) ==
  IF Cardinality(relevant_items) > 0
    THEN [num |-> hits, den |-> Cardinality(relevant_items)]
    ELSE [num |-> 0, den |-> 1]

\* Lines 170-173, before rounding: 2pr / (p + r), or 0 when p + r = 0.
F1Of(p, r) ==
  IF p.num * r.den + r.num * p.den > 0
    THEN [num |-> 2 * p.num * r.num, den |-> p.num * r.den + r.num * p.den]
    ELSE [num |-> 0, den |-> 1]

Rounded(x) == Round4(x.num, x.den)

InsufficientData(user_id) == [user_id |-> user_id, message |-> "InsufficientData"]
NoRelevantItems(user_id) == [user_id |-> user_id, message |-> "NoRelevantItems"]

\* Lines 175-183.
Metrics(user_id, recommended_ids, relevant_items) ==
  LET hits == Cardinality(recommended_ids \cap relevant_items)
      precision == PrecisionOf(hits, recommended_ids)
      recall == RecallOf(hits, relevant_items)
  IN  [user_id |-> user_id,
       precision |-> Rounded(precision),
       recall |-> Rounded(recall),
       f1_score |-> Rounded(F1Of(precision, recall)),
       hits |-> hits,
       recommended |-> recommended_ids,
       relevant_in_test |-> relevant_items]

\* What a call that did not reach the split reports about it.
NoSplit ==
  [split |-> FALSE, test_items |-> <<>>, train_items |-> <<>>, train_df |-> <<>>,
   test_index |-> <<>>, train_index |-> <<>>, train_df_index |-> <<>>,
   recommended_ids |-> {}, relevant_items |-> {}]

\* Lines 125-183: evaluate_accuracy once the index is there.  Beside the
\* returned value the record keeps the locals of the call.
Evaluate(user_id, items, ratings, g) ==
  LET user_pos == UserPositions(ratings, 1, user_id)
      user_ratings == RowsAt(ratings, user_pos)
      sampled == SamplePositions(Len(user_ratings))
      test_pos == [k \in 1 .. Len(sampled) |-> user_pos[sampled[k] + 1]]
      test_items == RowsAt(ratings, test_pos)
      train_pos == SelectSeq(user_pos, LAMBDA q : q \notin Range(test_pos))
      train_items == RowsAt(ratings, train_pos)
      train_df_pos == TrainView(user_id, ratings, train_pos)
      train_df == RowsAt(ratings, train_df_pos)
      \* line 142; the test of line 79 is false here, line 122 has run
      recs == Recommend(user_id, items, train_df, EvalTopN, g)
      recommended_ids == {recs.value[k].item_id : k \in 1 .. Len(recs.value)}
      relevant_items == RelevantItems(test_items)
      locals == [split |-> TRUE, test_items |-> test_items,
                 train_items |-> train_items, train_df |-> train_df,
                 test_index |-> Labels(test_pos), train_index |-> Labels(train_pos),
                 train_df_index |-> Labels(train_df_pos),
                 recommended_ids |-> recommended_ids,
                 relevant_items |-> relevant_items]
  IN  IF TooFewPositives(user_ratings)
        THEN [raised |-> "none", value |-> InsufficientData(user_id)] @@ NoSplit
      ELSE IF recs.raised # "none"
        THEN [raised |-> recs.raised, value |-> <<>>] @@ locals
      ELSE IF relevant_items = {}
        THEN [raised |-> "none", value |-> NoRelevantItems(user_id)] @@ locals
      ELSE [raised |-> "none",
            value |-> Metrics(user_id, recommended_ids, relevant_items)] @@ locals

evaluate_accuracy(user_id, items, ratings, g) ==
  LET e == EnsureIndex(items, g)
  IN  IF e.raised # "none"
        THEN [raised |-> e.raised, value |-> <<>>, g |-> e.g, rebuilt |-> e.rebuilt]
               @@ NoSplit
        ELSE Evaluate(user_id, items, ratings, e.g)
               @@ [g |-> e.g, rebuilt |-> e.rebuilt]

----------------------------------------------------------------------------
(* calculate_overall_accuracy *)

\* ratings_df["user_id"].unique(): the distinct ids in order of appearance.
RECURSIVE UniqueUsers(_)
UniqueUsers(ratings) ==
  IF ratings = <<>> THEN <<>>
  ELSE LET before == UniqueUsers(SubSeq(ratings, 1, Len(ratings) - 1))
           u == ratings[Len(ratings)].user_id
       IN  IF u \in Range(before) THEN before ELSE Append(before, u)

\* Line 199.
Counts(result) == "f1_score" \in DOMAIN result

\* The loop of lines 196-203 from position k of unique_users on; results is
\* the sequence of the dicts evaluate_accuracy returned so far.
RECURSIVE EvaluateUsers(_, _, _, _, _, _)
EvaluateUsers(unique_users, k, items, ratings, g, results) ==
  IF k > Len(unique_users)
    THEN [raised |-> "none", results |-> results]
  ELSE LET r == evaluate_accuracy(unique_users[k], items, ratings, g)
       IN  IF r.raised # "none"
             THEN [raised |-> r.raised, results |-> results]
             ELSE EvaluateUsers(unique_users, k + 1, items, ratings, r.g,
                                Append(results, r.value))

NoData == [message |-> "NoData"]

\* The divisor of lines 209-211.
Divisor(counted, results) == Len(counted)

\* Lines 205-213.
Aggregate(results) ==
  LET counted == SelectSeq(results, Counts)
      count == Divisor(counted, results)
      Total(F(_)) == SumSeq([k \in 1 .. Len(counted) |-> F(counted[k])])
  IN  IF Len(counted) = 0 THEN NoData
      ELSE [mean_precision |-> [num |-> Total(LAMBDA d : d.precision), den |-> count],
            mean_recall |-> [num |-> Total(LAMBDA d : d.recall), den |-> count],
            mean_f1_score |-> [num |-> Total(LAMBDA d : d.f1_score), den |-> count],
            users_evaluated |-> Len(counted)]

calculate_overall_accuracy(items, ratings, g) ==
  LET e == EnsureIndex(items, g)
      loop == EvaluateUsers(UniqueUsers(ratings), 1, items, ratings, e.g, <<>>)
  IN  IF e.raised # "none"
        THEN [raised |-> e.raised, value |-> <<>>, g |-> e.g,
              rebuilt |-> e.rebuilt, results |-> <<>>]
      ELSE IF loop.raised # "none"
        THEN [raised |-> loop.raised, value |-> <<>>, g |-> e.g,
              rebuilt |-> e.rebuilt, results |-> loop.results]
      ELSE [raised |-> "none", value |-> Aggregate(loop.results), g |-> e.g,
            rebuilt |-> e.rebuilt, results |-> loop.results]

----------------------------------------------------------------------------
(* The calls and what surrounds them *)

NoCall == [op |-> "none"]
NoMemo == [op |-> "none"]
IdleRequest == [pc |-> "idle"]

CurrentGlobals == Globals(tfidf_matrix, item_indices_map)

\* What a call leaves in `last`: its arguments, the globals it found, and
\* what it returned or raised together with its locals.
Call(op, user_id, top_n, r) ==
  [op |-> op, user_id |-> user_id, top_n |-> top_n, cached |-> CurrentGlobals,
   ret |-> [f \in DOMAIN r \ {"g"} |-> r[f]]]

Init ==
  /\ items_df \in Catalogs
  /\ ratings_df = <<>>
  /\ tfidf_matrix = NoneMatrix
  /\ item_indices_map = EmptyMap
  /\ last = NoCall
  /\ memo = NoMemo
  /\ req = [t \in Threads |-> IdleRequest]

\* The caller comes with another catalog (items.csv as app.py reads it).
LoadCatalog(c) ==
  /\ last = NoCall
  /\ c # items_df
  /\ items_df' = c
  /\ last' = NoCall
  /\ UNCHANGED <<ratings_df, tfidf_matrix, item_indices_map, memo, req>>

\* ratings.csv, which every request reads anew, has one more row.  The
\* backend takes the rows as they are, several for one (user_id, item_id)
\* included.
SaveRating(row, max) ==
  /\ last = NoCall
  /\ Len(ratings_df) < max
  /\ ratings_df' = Append(ratings_df, row)
  /\ last' = NoCall
  /\ memo' = NoMemo
  /\ UNCHANGED <<items_df, tfidf_matrix, item_indices_map, req>>

GetRecommendations(user_id, top_n) ==
  LET r == get_recommendations(user_id, items_df, ratings_df, top_n, CurrentGlobals)
  IN  /\ last = NoCall
      /\ tfidf_matrix' = r.g.tfidf_matrix
      /\ item_indices_map' = r.g.item_indices_map
      /\ last' = Call("get_recommendations", user_id, top_n, r)
      /\ UNCHANGED <<items_df, ratings_df, memo, req>>

\* keep = FALSE: the call is also remembered in memo.
EvaluateAccuracy(user_id, keep) ==
  LET r == evaluate_accuracy(user_id, items_df, ratings_df, CurrentGlobals)
  IN  /\ last = NoCall
      /\ tfidf_matrix' = r.g.tfidf_matrix
      /\ item_indices_map' = r.g.item_indices_map
      /\ last' = Call("evaluate_accuracy", user_id, EvalTopN, r)
      /\ memo' = IF keep THEN memo
                 ELSE [op |-> "evaluate_accuracy", user_id |-> user_id,
                       items_df |-> items_df, ret |-> last'.ret]
      /\ UNCHANGED <<items_df, ratings_df, req>>

CalculateOverallAccuracy ==
  LET r == calculate_overall_accuracy(items_df, ratings_df, CurrentGlobals)
  IN  /\ last = NoCall
      /\ tfidf_matrix' = r.g.tfidf_matrix
      /\ item_indices_map' = r.g.item_indices_map
      /\ last' = Call("calculate_overall_accuracy", 0, EvalTopN, r)
      /\ UNCHANGED <<items_df, ratings_df, memo, req>>

\* The caller has taken what the call returned or raised; the calls of one
\* process follow one another.
Return ==
  /\ last # NoCall
  /\ last' = NoCall
  /\ UNCHANGED <<items_df, ratings_df, tfidf_matrix, item_indices_map, memo, req>>

Next ==
  \/ \E c \in Catalogs : LoadCatalog(c)
  \/ \E row \in RatingRows : SaveRating(row, MaxRatings)
  \/ \E user_id \in UserIds, top_n \in TopNs : GetRecommendations(user_id, top_n)
  \/ \E user_id \in UserIds : EvaluateAccuracy(user_id, TRUE)
  \/ CalculateOverallAccuracy
  \/ Return

Spec == Init /\ [][Next]_vars

\* The same calls over shorter ratings files, with one earlier
\* evaluate_accuracy call remembered.
NextDet ==
  \/ \E c \in Catalogs : LoadCatalog(c)
  \/ \E row \in RatingRows : SaveRating(row, MaxDetRatings)
  \/ \E user_id \in UserIds : GetRecommendations(user_id, DefaultTopN)
  \/ \E user_id \in UserIds, keep \in BOOLEAN : EvaluateAccuracy(user_id, keep)
  \/ Return

SpecDet == Init /\ [][NextDet]_vars

----------------------------------------------------------------------------
(* Concurrent /recomendar requests.  FastAPI runs the handlers, which are  *)
(* plain functions, on the threads of a pool; the threads share the module *)
(* globals and switch between bytecodes.  A request is followed through    *)
(* the reads and writes of the globals, one step each.                     *)

\* All ratings files of at most n rows.
Frames(n) == UNION {[1 .. k -> RatingRows] : k \in 0 .. n}

InitConc ==
  /\ items_df \in Catalogs
  /\ ratings_df \in Frames(MaxConcRatings)
  /\ tfidf_matrix = NoneMatrix
  /\ item_indices_map = EmptyMap
  /\ last = NoCall
  /\ memo = NoMemo
  /\ req = [t \in Threads |-> IdleRequest]

Goto(t, r) == req' = [req EXCEPT ![t] = r]
Finish(t, ret) == Goto(t, [req[t] EXCEPT !.pc = "done", !.ret = ret])

\* app.py lines 14-17: the request arrives and the handler calls
\* get_recommendations with the default top_n.
Request(t, user_id) ==
  /\ req[t].pc = "idle"
  /\ Goto(t, [pc |-> "line79", user_id |-> user_id, matrix_read |-> {},
              map_read |-> {}, k |-> 0, liked_indices |-> <<>>,
              user_profile |-> NoProfile, ret |-> <<>>])
  /\ UNCHANGED <<items_df, ratings_df, tfidf_matrix, item_indices_map, last, memo>>

\* Line 79: if tfidf_matrix is None.
CheckIndex(t) ==
  /\ req[t].pc = "line79"
  /\ Goto(t, [req[t] EXCEPT
                !.pc = IF tfidf_matrix.is_none THEN "line46" ELSE "line58",
                !.matrix_read = @ \cup {tfidf_matrix}])
  /\ UNCHANGED <<items_df, ratings_df, tfidf_matrix, item_indices_map, last, memo>>

\* Line 46: tfidf_matrix = tfidf.fit_transform(...), or its ValueError.
AssignMatrix(t) ==
  /\ req[t].pc = "line46"
  /\ IF Len(items_df) = 0
       THEN /\ Finish(t, [raised |-> "ValueError", value |-> <<>>])
            /\ UNCHANGED tfidf_matrix
       ELSE /\ tfidf_matrix' = Vectorize(items_df)
            /\ Goto(t, [req[t] EXCEPT !.pc = "line49"])
  /\ UNCHANGED <<items_df, ratings_df, item_indices_map, last, memo>>

\* Line 49: item_indices_map = ...to_dict().
AssignMap(t) ==
  /\ req[t].pc = "line49"
  /\ item_indices_map' = IndexMap(items_df)
  /\ Goto(t, [req[t] EXCEPT !.pc = "line58"])
  /\ UNCHANGED <<items_df, ratings_df, tfidf_matrix, last, memo>>

UserLikes(user_id) == SelectSeq(ratings_df, LAMBDA row : IsLike(user_id, row))

\* Lines 58-63: user_likes, and the return of line 61 when it is empty.
SelectLikes(t) ==
  /\ req[t].pc = "line58"
  /\ IF UserLikes(req[t].user_id) = <<>>
       THEN Finish(t, [raised |-> "none", value |-> <<>>])
       ELSE Goto(t, [req[t] EXCEPT !.pc = "line64", !.k = 1])
  /\ UNCHANGED <<items_df, ratings_df, tfidf_matrix, item_indices_map, last, memo>>

\* Lines 64-66: one iteration of the loop, which reads item_indices_map.
LikedLoop(t) ==
  /\ req[t].pc = "line64"
  /\ req[t].k <= Len(UserLikes(req[t].user_id))
  /\ Goto(t, [req[t] EXCEPT
                !.k = @ + 1,
                !.map_read = @ \cup {item_indices_map},
                !.liked_indices =
                   @ \o LikedIndices(<<UserLikes(req[t].user_id)[req[t].k]>>,
                                     item_indices_map)])
  /\ UNCHANGED <<items_df, ratings_df, tfidf_matrix, item_indices_map, last, memo>>

\* Lines 68-69: after the loop, the return of line 69 or on to the mean.
LikedDone(t) ==
  /\ req[t].pc = "line64"
  /\ req[t].k > Len(UserLikes(req[t].user_id))
  /\ IF req[t].liked_indices = <<>>
       THEN Finish(t, [raised |-> "none", value |-> <<>>])
       ELSE Goto(t, [req[t] EXCEPT !.pc = "line72"])
  /\ UNCHANGED <<items_df, ratings_df, tfidf_matrix, item_indices_map, last, memo>>

\* Line 72: np.mean(tfidf_matrix[liked_indices], axis=0).
MeanStep(t) ==
  /\ req[t].pc = "line72"
  /\ Goto(t, [req[t] EXCEPT
                !.pc = "line88",
                !.matrix_read = @ \cup {tfidf_matrix},
                !.user_profile = MeanVector(tfidf_matrix, req[t].liked_indices)])
  /\ UNCHANGED <<items_df, ratings_df, tfidf_matrix, item_indices_map, last, memo>>

\* Lines 88-113: the scores against tfidf_matrix, the sort and the loop.
ScoreStep(t) ==
  /\ req[t].pc = "line88"
  /\ Goto(t, [req[t] EXCEPT
                !.pc = "done",
                !.matrix_read = @ \cup {tfidf_matrix},
                !.ret = RecommendLoop(
                          SortedByScore(SimScores(req[t].user_profile, tfidf_matrix)),
                          1, items_df, WatchedItems(req[t].user_id, ratings_df),
                          DefaultTopN, <<>>)])
  /\ UNCHANGED <<items_df, ratings_df, tfidf_matrix, item_indices_map, last, memo>>

\* app.py line 18: the response is sent.
Respond(t) ==
  /\ req[t].pc = "done"
  /\ Goto(t, IdleRequest)
  /\ UNCHANGED <<items_df, ratings_df, tfidf_matrix, item_indices_map, last, memo>>

NextConc ==
  \E t \in Threads :
    \/ \E user_id \in UserIds : Request(t, user_id)
    \/ CheckIndex(t)
    \/ AssignMatrix(t)
    \/ AssignMap(t)
    \/ SelectLikes(t)
    \/ LikedLoop(t)
    \/ LikedDone(t)
    \/ MeanStep(t)
    \/ ScoreStep(t)
    \/ Respond(t)

SpecConc == InitConc /\ [][NextConc]_vars

----------------------------------------------------------------------------
(* Properties *)

Returned(op) == last.op = op /\ last.ret.raised = "none"

\* C1: get_recommendations(u, items, ratings, top_n=N) returns at most N
\* entries, for every N >= 0, and none of them is an item u has a rating for
\* in the ratings passed.
C1_AtMostNUnrated ==
  Returned("get_recommendations") =>
    /\ Len(last.ret.value) <= last.top_n
    /\ \A k \in 1 .. Len(last.ret.value) :
         last.ret.value[k].item_id \notin WatchedItems(last.user_id, ratings_df)

\* C2: every call computes with an index built from the catalog passed to
\* it: after a call with a catalog that has rows, the cached matrix and map
\* are those of that catalog, and the call rebuilt them exactly when the
\* cache it found was not.
C2_IndexOfCallCatalog ==
  (last.op # "none" /\ Len(items_df) > 0) =>
    /\ tfidf_matrix = Vectorize(items_df)
    /\ item_indices_map = IndexMap(items_df)
    /\ last.ret.rebuilt <=>
         last.cached # Globals(Vectorize(items_df), IndexMap(items_df))

\* C3: whatever a request has read of the two globals belongs to one
\* completed build: with a built matrix it never reads a map other than the
\* map of that build.
C3_NoTornRead ==
  \A t \in Threads :
    req[t].pc # "idle" =>
      \A m \in req[t].matrix_read, x \in req[t].map_read :
        ~m.is_none => m = Vectorize(items_df) /\ x = IndexMap(items_df)

\* C4: the list get_recommendations returns is in descending score order,
\* entries of equal score in ascending item_id order.
C4_ScoreThenItemId ==
  Returned("get_recommendations") =>
    \A i, j \in 1 .. Len(last.ret.value) :
      i < j =>
        \/ last.ret.value[i].score > last.ret.value[j].score
        \/ /\ last.ret.value[i].score = last.ret.value[j].score
           /\ last.ret.value[i].item_id < last.ret.value[j].item_id

\* What two calls are compared by: what was returned or raised and the
\* locals of the call, the train/test partition among them.
Outcome(r) == [f \in DOMAIN r \ {"rebuilt"} |-> r[f]]

SameCallAsMemo ==
  /\ last.op = "evaluate_accuracy"
  /\ memo.op = "evaluate_accuracy"
  /\ memo.user_id = last.user_id
  /\ memo.items_df = items_df

\* C5: an evaluate_accuracy call gives the same partition and the same
\* result as an earlier call of the same process with the same user id,
\* catalog and ratings, whatever was called in between.
C5_SameCallSameResult ==
  SameCallAsMemo => Outcome(last.ret) = Outcome(memo.ret)

LabelsOf(user_ids) ==
  {p - 1 : p \in {q \in 1 .. Len(ratings_df) : ratings_df[q].user_id \in user_ids}}

NoRepeats(s) == Cardinality(Range(s)) = Len(s)

RowsOf(labels) == [k \in 1 .. Len(labels) |-> ratings_df[labels[k] + 1]]

\* C6: in evaluate_accuracy for user u the test and train partitions are
\* disjoint and together are u's rows, and the ratings handed to
\* get_recommendations are the rows of all other users and u's train rows:
\* no test row, and no row of another user missing.
C6_TrainViewExcludesTest ==
  (last.op = "evaluate_accuracy" /\ last.ret.split) =>
    LET test == Range(last.ret.test_index)
        train == Range(last.ret.train_index)
        view == Range(last.ret.train_df_index)
    IN  /\ NoRepeats(last.ret.test_index)
        /\ NoRepeats(last.ret.train_index)
        /\ NoRepeats(last.ret.train_df_index)
        /\ test \cap train = {}
        /\ test \cup train = LabelsOf({last.user_id})
        /\ view = LabelsOf(UserIds \ {last.user_id}) \cup train
        /\ view \cap test = {}
        /\ last.ret.test_items = RowsOf(last.ret.test_index)
        /\ last.ret.train_items = RowsOf(last.ret.train_index)
        /\ last.ret.train_df = RowsOf(last.ret.train_df_index)

C6_Witness ==
  /\ last.op = "evaluate_accuracy" /\ last.ret.split
  /\ Len(last.ret.test_index) >= 2
  /\ last.ret.train_index # <<>>
  /\ LabelsOf(UserIds \ {last.user_id}) # {}

Numeric(op) == Returned(op) /\ "f1_score" \in DOMAIN last.ret.value

Abs(x) == IF x < 0 THEN 0 - x ELSE x

\* x, in units of 1/10000, is num/den rounded to 4 decimal places.
IsRounded(x, num, den) == 2 * Abs(num * 10000 - x * den) <= den

\* C7 as claimed: precision, recall and f1 are exactly hits/|recommended|,
\* hits/|relevant| and 2pr/(p+r) (0 for an empty denominator).
C7_ExactMetrics ==
  Numeric("evaluate_accuracy") =>
    LET v == last.ret.value
        a == Cardinality(v.recommended)
        b == Cardinality(v.relevant_in_test)
    IN  /\ v.hits = Cardinality(v.recommended \cap v.relevant_in_test)
        /\ v.precision * a = v.hits * 10000
        /\ v.recall * b = v.hits * 10000
        /\ v.f1_score * (v.precision + v.recall) = 2 * v.precision * v.recall

\* C7 amended: hits = |recommended /\ relevant|; precision, recall and f1
\* are hits/|recommended| (0 when nothing is recommended), hits/|relevant|
\* and 2pr/(p+r) of the unrounded p and r (0 when both are 0), each rounded
\* to 4 decimal places; hits is at most either size and all three lie in
\* [0, 1].
C7_RoundedMetrics ==
  Numeric("evaluate_accuracy") =>
    LET v == last.ret.value
        a == Cardinality(v.recommended)
        b == Cardinality(v.relevant_in_test)
    IN  /\ v.hits = Cardinality(v.recommended \cap v.relevant_in_test)
        /\ v.recommended = last.ret.recommended_ids
        /\ v.relevant_in_test = last.ret.relevant_items
        /\ b > 0
        /\ IF a = 0 THEN v.precision = 0 ELSE IsRounded(v.precision, v.hits, a)
        /\ IsRounded(v.recall, v.hits, b)
        /\ IF v.hits = 0 THEN v.f1_score = 0
           ELSE IsRounded(v.f1_score, 2 * v.hits, a + b)
        /\ v.hits <= a /\ v.hits <= b
        /\ \A x \in {v.precision, v.recall, v.f1_score} : 0 <= x /\ x <= 10000

\* A numeric result whose f1 is not a multiple of 1/10000 before rounding.
C7_Witness ==
  /\ Numeric("evaluate_accuracy")
  /\ last.ret.value.hits = 1
  /\ Cardinality(last.ret.value.recommended) = 2
  /\ last.ret.value.f1_score = 6667

IsNumeric(d) == DOMAIN d = {"user_id", "precision", "recall", "f1_score", "hits",
                            "recommended", "relevant_in_test"}
IsSentinel(d, user_id, message) ==
  d = [user_id |-> user_id, message |-> message]

UsersIn(ratings) == {ratings[k].user_id : k \in 1 .. Len(ratings)}

\* C8: with a catalog that has rows, calculate_overall_accuracy evaluates
\* every distinct user id of ratings once; users_evaluated is the number k
\* of numeric results, each mean is the sum of the k values over k, and
\* with k = 0 the result is the lone "no data" message.
C8_MeansOverNumericUsers ==
  (last.op = "calculate_overall_accuracy" /\ Len(items_df) > 0) =>
    LET rs == last.ret.results
        numeric == SelectSeq(rs, IsNumeric)
        k == Len(numeric)
        Mean(m, F(_)) ==
          m.den > 0 /\ m.num * k = m.den * SumSeq([i \in 1 .. k |-> F(numeric[i])])
        v == last.ret.value
    IN  /\ last.ret.raised = "none"
        /\ Len(rs) = Cardinality(UsersIn(ratings_df))
        /\ {rs[i].user_id : i \in 1 .. Len(rs)} = UsersIn(ratings_df)
        /\ IF k = 0 THEN v = [message |-> "NoData"]
           ELSE /\ DOMAIN v = {"mean_precision", "mean_recall", "mean_f1_score",
                               "users_evaluated"}
                /\ v.users_evaluated = k
                /\ Mean(v.mean_precision, LAMBDA d : d.precision)
                /\ Mean(v.mean_recall, LAMBDA d : d.recall)
                /\ Mean(v.mean_f1_score, LAMBDA d : d.f1_score)

PositivesOf(user_id) ==
  {q \in 1 .. Len(ratings_df) :
     ratings_df[q].user_id = user_id /\ ratings_df[q].rating >= 3}

\* C9: for a user with fewer than 2 ratings of 3 or more, evaluate_accuracy
\* never returns a numeric result, and with a catalog that has rows it
\* returns the InsufficientData sentinel: a user id and a message, no
\* precision, recall or f1.
C9_InsufficientData ==
  (last.op = "evaluate_accuracy" /\ Cardinality(PositivesOf(last.user_id)) < 2) =>
    /\ ~Numeric("evaluate_accuracy")
    /\ last.ret.raised = "none" =>
         IsSentinel(last.ret.value, last.user_id, "InsufficientData")
    /\ Len(items_df) > 0 => last.ret.raised = "none"

\* A user with exactly one rating, a liked one, gets the sentinel.
C9_Witness ==
  /\ Returned("evaluate_accuracy")
  /\ Cardinality(LabelsOf({last.user_id})) = 1
  /\ Cardinality(PositivesOf(last.user_id)) = 1
  /\ IsSentinel(last.ret.value, last.user_id, "InsufficientData")

\* C10: for a user with at least 2 ratings of 3 or more and a catalog that
\* has rows, the relevant set of evaluate_accuracy is the item ids of the
\* test rows rated 3 or more; when it is empty the result is the
\* NoRelevantItems sentinel, and a numeric result has a relevant set that is
\* not empty.
C10_RelevantFromTest ==
  (/\ last.op = "evaluate_accuracy"
   /\ Len(items_df) > 0
   /\ Cardinality(PositivesOf(last.user_id)) >= 2) =>
    LET relevant == {ratings_df[l + 1].item_id :
                       l \in {x \in Range(last.ret.test_index) :
                                ratings_df[x + 1].rating >= 3}}
    IN  /\ last.ret.split
        /\ last.ret.relevant_items = relevant
        /\ relevant = {} =>
             /\ last.ret.raised = "none"
             /\ IsSentinel(last.ret.value, last.user_id, "NoRelevantItems")
        /\ Numeric("evaluate_accuracy") =>
             relevant # {} /\ last.ret.value.relevant_in_test = relevant

\* The failure of a catalog without rows: fit_transform raises ValueError
\* (line 46) and nothing catches it.
EmptyCatalog(ret) == ret.raised = "ValueError"

\* C11: every call of get_recommendations, evaluate_accuracy or
\* calculate_overall_accuracy made with a catalog of zero items ends in the
\* EmptyCatalog failure, never in a returned value or another exception,
\* whatever the cached index is.
C11_EmptyCatalogFatal ==
  (last.op # "none" /\ Len(items_df) = 0) => EmptyCatalog(last.ret)

\* The item ids of a catalog, and the item ids a user has rated 3 or more.
KnownItems(items) == {items[k].item_id : k \in 1 .. Len(items)}

LikedItems(user_id, ratings) ==
  {ratings[k].item_id : k \in {q \in 1 .. Len(ratings) : IsLike(user_id, ratings[q])}}

\* C12: with a catalog that has rows, get_recommendations returns the empty
\* list without raising when the user has no rating of 3 or more, or no
\* liked item id is an item of the catalog, or the user has rated every
\* item of the catalog; and a list it returns is non-empty only when some
\* liked item id is an item of the catalog.
C12_ColdStart ==
  (last.op = "get_recommendations" /\ Len(items_df) > 0) =>
    LET liked == LikedItems(last.user_id, ratings_df)
        known == KnownItems(items_df)
        watched == WatchedItems(last.user_id, ratings_df)
        cold == \/ liked = {}
                \/ liked \cap known = {}
                \/ known \subseteq watched
    IN  /\ cold => last.ret.raised = "none" /\ last.ret.value = <<>>
        /\ (last.ret.raised = "none" /\ last.ret.value # <<>>) =>
             liked \cap known # {}

\* The same with the index of the catalog passed: the cache the call found
\* was empty or built from this catalog.
ColdStartWithIndexOfCatalog ==
  (last.op = "get_recommendations" /\ 
   last.cached \in {Globals(NoneMatrix, EmptyMap),
                    Globals(Vectorize(items_df), IndexMap(items_df))}) =>
    C12_ColdStart

\* Row k is the last row of the ratings for its (user_id, item_id).
IsLastWrite(ratings, k) ==
  \A j \in k + 1 .. Len(ratings) :
    ~(ratings[j].user_id = ratings[k].user_id /\ ratings[j].item_id = ratings[k].item_id)

\* The ratings with only the last row of every (user_id, item_id), from
\* position k on.
RECURSIVE LastWrites(_, _)
LastWrites(ratings, k) ==
  IF k > Len(ratings) THEN <<>>
  ELSE (IF IsLastWrite(ratings, k) THEN <<ratings[k]>> ELSE <<>>)
         \o LastWrites(ratings, k + 1)

\* The rating of the last row user_id has for item_id.
LastRating(user_id, item_id, ratings) ==
  LET k == CHOOSE q \in 1 .. Len(ratings) :
             /\ ratings[q].user_id = user_id
             /\ ratings[q].item_id = item_id
             /\ IsLastWrite(ratings, q)
  IN  ratings[k].rating

\* Two profiles are the same mean vector: both none, or sum / n equal in
\* every term.
SameProfile(p, q) ==
  /\ p.is_none = q.is_none
  /\ \A t \in Terms : p.sum[t] * q.n = q.sum[t] * p.n

\* C13: of several rows for one (user_id, item_id) only the last counts.
\* The profile get_recommendations builds is the profile built from the last
\* rows alone (an item last rated below 3 is not in it, an item rated twice
\* is in it once), and the relevant set of evaluate_accuracy is the test
\* items whose last rating by the user is 3 or more.
C13_LastWriteWins ==
  /\ last.op = "get_recommendations" =>
       SameProfile(
         build_user_profile(last.user_id, ratings_df, tfidf_matrix, item_indices_map),
         build_user_profile(last.user_id, LastWrites(ratings_df, 1),
                            tfidf_matrix, item_indices_map))
  /\ (last.op = "evaluate_accuracy" /\ last.ret.split) =>
       last.ret.relevant_items =
         {i \in {last.ret.test_items[k].item_id : k \in 1 .. Len(last.ret.test_items)} :
            LastRating(last.user_id, i, ratings_df) >= Threshold}

====
